---- MODULE Spec2Model ----
(***************************************************************************)
(* A model of pytato's code generation pass (src/pytato/codegen.py):       *)
(* generate_loopy walks the named nodes of a Namespace with a              *)
(* CodeGenMapper, which lowers Placeholder, Output and IndexLambda nodes   *)
(* into a loopy kernel (args, domains, instructions), memoizing one        *)
(* GeneratedResult per node in CodeGenState.results.                       *)
(*                                                                         *)
(* Python values keep their dynamic type: a shape is PyTuple(<<..>>), a    *)
(* dtype is PyDtype("..").  A Python exception is the field `raised` of    *)
(* the threaded state: once it is set every enclosing call returns at      *)
(* once, leaving the CodeGenState as it was at the raise.                  *)
(***************************************************************************)
EXTENDS Integers, Sequences, FiniteSets, TLC

VARIABLES
    ns,             \* the Namespace handed to generate_loopy: node ids in insertion order
    pc,             \* position in generate_loopy: "loop", "done" or "raised"
    i,              \* index of the next item of namespace.items() to lower
    state,          \* the CodeGenState (plus history fields, see InitState)
    bound_program   \* <<>> until target.bind_program is called, then <<program>>

vars == <<ns, pc, i, state, bound_program>>

\* Longest Namespace (number of named nodes) drawn as input.
MaxNs == 3

------------------------------------------------------------------------------
(* Python values *)

PyTuple(t) == [py |-> "tuple", val |-> t]
PyDtype(d) == [py |-> "dtype", val |-> d]
\* len(): of a tuple its length; of a (non-structured) numpy dtype, 0 fields.
PyLen(v) == IF v.py = "tuple" THEN Len(v.val) ELSE 0

Put(f, k, v) == [x \in DOMAIN f \cup {k} |-> IF x = k THEN v ELSE f[x]]
NoMap == [x \in {} |-> 0]

(* Scalar expressions (pymbolic primitives) *)

Variable(name) == [op |-> "Variable", name |-> name, args |-> <<>>]
\* prim.Variable(name)[index]: the aggregate is always a Variable (asserted
\* at map_subscript), kept by its name; args is the index tuple.
Subscript(name, index) == [op |-> "Subscript", name |-> name, args |-> index]
Sum(l, r) == [op |-> "Sum", name |-> "", args |-> <<l, r>>]
NoExpr == [op |-> "None", name |-> "", args |-> <<>>]

\* f"_{d}": the reserved per-dimension index name of an IndexLambda.
IndexName(d) == "_" \o ToString(d)

------------------------------------------------------------------------------
(* The computation graphs the pass is run on: nodes are identified by      *)
(* their id (object identity).                                             *)

Node(kind, name, shape, array, bindings, expr) ==
    [kind |-> kind, name |-> name, shape |-> PyTuple(shape),
     dtype |-> PyDtype("float64"), array |-> array,
     bindings |-> bindings, expr |-> expr]

Placeholder(name, shape) == Node("Placeholder", name, shape, 0, NoMap, NoExpr)
Output(name, shape, array) == Node("Output", name, shape, array, NoMap, NoExpr)
IndexLambda(expr, shape, bindings) == Node("IndexLambda", "", shape, 0, bindings, expr)

Nodes ==
    <<  Placeholder("a", <<5>>),                                   \* 1
        Placeholder("b", <<5>>),                                   \* 2
        Placeholder("m", <<2, 3>>),                                \* 3
        Placeholder("out_dim0", <<5>>),                            \* 4
        Placeholder("c", <<>>),                                    \* 5
        \* 6: a[_0], `a` left to the enclosing scopes
        IndexLambda(Subscript("a", <<Variable("_0")>>), <<5>>, NoMap),
        \* 7: x[_0] + a[_0] with x bound to node 6 and a bound to Placeholder b
        IndexLambda(Sum(Subscript("x", <<Variable("_0")>>),
                        Subscript("a", <<Variable("_0")>>)),
                    <<5>>, ("x" :> 6) @@ ("a" :> 2)),
        \* 8: a[_0] + b[_0]
        IndexLambda(Sum(Subscript("a", <<Variable("_0")>>),
                        Subscript("b", <<Variable("_0")>>)),
                    <<5>>, ("a" :> 1) @@ ("b" :> 2)),
        \* 9: m[_0, _1]
        IndexLambda(Subscript("m", <<Variable("_0"), Variable("_1")>>),
                    <<2, 3>>, ("m" :> 3)),
        \* 10: the transpose of node 9, u[_1, _0]
        IndexLambda(Subscript("u", <<Variable("_1"), Variable("_0")>>),
                    <<3, 2>>, ("u" :> 9)),
        \* 11: y[_0] + zz[_0], zz bound nowhere
        IndexLambda(Sum(Subscript("y", <<Variable("_0")>>),
                        Subscript("zz", <<Variable("_0")>>)),
                    <<5>>, ("y" :> 1)),
        \* 12: out[_0], reading the Output named out
        IndexLambda(Subscript("out", <<Variable("_0")>>), <<5>>, NoMap),
        Output("out", <<5>>, 1),                                   \* 13
        Output("s", <<5>>, 8),                                     \* 14
        Output("o1", <<5>>, 6),                                    \* 15
        Output("o2", <<5>>, 7),                                    \* 16
        Output("t", <<3, 2>>, 10),                                 \* 17
        Output("z", <<>>, 5),                                      \* 18
        Output("d", <<5>>, 12),                                    \* 19
        Output("e", <<5>>, 11)                                     \* 20
    >>

NodeIds == DOMAIN Nodes
Named == {n \in NodeIds : Nodes[n].kind \in {"Placeholder", "Output"}}

\* Every Namespace of at most MaxNs named nodes, in every insertion order.
Namespaces ==
    {q \in UNION {[1..k -> Named] : k \in 1..MaxNs} :
        \A x, y \in DOMAIN q : x # y => q[x] # q[y]}

\* The Namespace as a mapping name -> node.
NamespaceMap(q) ==
    [name \in {Nodes[q[k]].name : k \in DOMAIN q} |->
        CHOOSE n \in {q[k] : k \in DOMAIN q} : Nodes[n].name = name]

------------------------------------------------------------------------------
(* Generated results *)

NoResult == [kind |-> "None", name |-> "", expr |-> NoExpr,
             shape |-> PyTuple(<<>>), dtype |-> PyTuple(<<>>)]

\* ArrayResult.__init__(name, shape, dtype)
ArrayResult(name, shape, dtype) ==
    [kind |-> "ArrayResult", name |-> name, expr |-> NoExpr,
     shape |-> shape, dtype |-> dtype]

\* LoopyExpressionResult.__init__(expr, shape, dtype)
LoopyExpressionResult(expr, shape, dtype) ==
    [kind |-> "LoopyExpressionResult", name |-> "", expr |-> expr,
     shape |-> shape, dtype |-> dtype]

\* GeneratedResult.ndim
ndim(result) == PyLen(result.shape)

RECURSIVE substitute(_, _)
\* scalar_expr.substitute(expr, variable_assigments): every Variable named in
\* the mapping is replaced by its image, all at once.
substitute(expr, assignments) ==
    IF expr.op = "Variable"
    THEN IF expr.name \in DOMAIN assignments THEN assignments[expr.name] ELSE expr
    ELSE [expr EXCEPT !.args =
            [k \in DOMAIN expr.args |-> substitute(expr.args[k], assignments)]]

\* dict(zip((f"_{d}" for d in range(ndim)), indices))
ZipIndexNames(n, indices) ==
    LET len == IF n < Len(indices) THEN n ELSE Len(indices)
    IN  [name \in {IndexName(d) : d \in 0..(len - 1)} |->
            indices[1 + CHOOSE d \in 0..(len - 1) : IndexName(d) = name]]

\* ZipIndexNames with the names shifted by one dimension.
ZipIndexNamesShifted(n, indices) ==
    LET len == IF n < Len(indices) THEN n ELSE Len(indices)
    IN  [name \in {IndexName(d + 1) : d \in 0..(len - 1)} |->
            indices[1 + CHOOSE d \in 0..(len - 1) : IndexName(d + 1) = name]]

\* to_loopy_expression with the index names of an expression result shifted.
to_loopy_expression_shifted(result, indices, context) ==
    IF result.kind = "ArrayResult"
    THEN IF indices = <<>> THEN Variable(result.name)
         ELSE Subscript(result.name, indices)
    ELSE substitute(result.expr, ZipIndexNamesShifted(ndim(result), indices))

\* ArrayResult.to_loopy_expression / LoopyExpressionResult.to_loopy_expression.
\* Neither touches the context.
to_loopy_expression(result, indices, context) ==
    IF result.kind = "ArrayResult"
    THEN IF indices = <<>> THEN Variable(result.name)
         ELSE Subscript(result.name, indices)
    ELSE substitute(result.expr, ZipIndexNames(ndim(result), indices))

------------------------------------------------------------------------------
(* Kernel pieces *)

\* lp.GlobalArg(name, shape=, dtype=, order="C", is_output_only=)
GlobalArg(name, shape, dtype, is_output_only) ==
    [name |-> name, shape |-> shape, dtype |-> dtype, order |-> "C",
     is_output_only |-> is_output_only]

\* scalar_expr.domain_for_shape(inames, shape): 0 <= inames[d] < shape[d].
domain_for_shape(inames, shape) == [inames |-> inames, extents |-> shape.val]

\* make_assignment(assignees, expression, id=, within_inames=, depends_on=);
\* indices is the index tuple the expression was rendered at (history).
make_assignment(assignee, expression, id, within_inames, depends_on, indices) ==
    [assignee |-> assignee, expression |-> expression, id |-> id,
     within_inames |-> within_inames, depends_on |-> depends_on,
     rendered_at |-> indices]

\* lp.make_kernel("{:}", []): no args, no instructions, the parameterless domain.
EmptyKernel ==
    [args |-> <<>>, instructions |-> <<>>,
     domains |-> << domain_for_shape(<<>>, PyTuple(<<>>)) >>]

RECURSIVE FirstFree(_, _, _)
FirstFree(existing, based_on, try_num) ==
    LET name == based_on \o "_" \o ToString(try_num)
    IN  IF name \notin existing THEN name ELSE FirstFree(existing, based_on, try_num + 1)

\* UniqueNameGenerator.__call__(based_on) of the generators made in
\* __post_init__: based_on itself unless the generator knows it already,
\* else the first free based_on_<n>.  The generator only knows the names of
\* the kernel it was made from and the names it has handed out.
UniqueName(existing, based_on) ==
    IF based_on \notin existing THEN based_on ELSE FirstFree(existing, based_on, 0)

RECURSIVE UniqueNames(_, _)
\* tuple(var_name_gen(b) for b in based_ons): [names, existing]
UniqueNames(existing, based_ons) ==
    IF based_ons = <<>> THEN [names |-> <<>>, existing |-> existing]
    ELSE LET name == UniqueName(existing, Head(based_ons))
             rest == UniqueNames(existing \cup {name}, Tail(based_ons))
         IN  [names |-> <<name>> \o rest.names, existing |-> rest.existing]

------------------------------------------------------------------------------
(* CodeGenState *)

\* CodeGenState(namespace=ChainMap(namespace), _kernel=kernel, results=dict())
\* and __post_init__.  visits, lowered and aborted are history: how often the
\* mapper was called on a node, how often a node's lowering ran past the
\* cache lookup, and the nodes whose lowering was left by an exception.
InitState(q) ==
    [namespace |-> << NamespaceMap(q) >>,
     kernel |-> EmptyKernel,
     results |-> NoMap,
     var_name_gen |-> {},
     insn_id_gen |-> {},
     raised |-> "",
     visits |-> [n \in NodeIds |-> 0],
     lowered |-> [n \in NodeIds |-> 0],
     aborted |-> {}]

Return(st, result) == [state |-> st, result |-> result]
Raise(st, exc, expr) ==
    [state |-> [st EXCEPT !.raised = exc, !.aborted = @ \cup {expr}],
     result |-> NoResult]
\* An exception passing through the lowering of expr.
Propagate(st, expr) ==
    [state |-> [st EXCEPT !.aborted = @ \cup {expr}], result |-> NoResult]

\* chain_namespaces, up to the yield: self.namespace.maps.insert(0, local_namespace)
chain_namespaces_enter(st, local_namespace) ==
    [st EXCEPT !.namespace = <<local_namespace>> \o @]

\* chain_namespaces, after the yield: self.namespace.maps.pop(0).  The
\* generator has no try/finally, so an exception raised in the with-body
\* leaves it at the yield and the pop does not run.
chain_namespaces_exit(st) ==
    IF st.raised # "" THEN st ELSE [st EXCEPT !.namespace = Tail(@)]

\* make_expression_context(): depends_on=frozenset(), reduction_bounds={}
make_expression_context == [depends_on |-> {}, reduction_bounds |-> NoMap]

\* ChainMap.__contains__ / __getitem__: the first map that has the name.
ChainHas(maps, name) == \E k \in DOMAIN maps : name \in DOMAIN maps[k]
ChainGet(maps, name) ==
    LET k == CHOOSE j \in DOMAIN maps :
                /\ name \in DOMAIN maps[j]
                /\ \A l \in 1..(j - 1) : name \notin DOMAIN maps[l]
    IN  maps[k][name]

------------------------------------------------------------------------------
(* CodeGenMapper and LoopyExpressionGenMapper *)

RECURSIVE rec(_, _), exprgen_rec(_, _, _), exprgen_children(_, _, _, _)

Cached(expr, st) == expr \in DOMAIN st.results

\* map_placeholder without the lookup in state.results.
map_placeholder_uncached(expr, st) ==
    LET node == Nodes[expr]
        arg == GlobalArg(node.name, node.shape, node.dtype, FALSE)
        result == ArrayResult(node.name, node.dtype, node.shape)
    IN  Return([st EXCEPT !.kernel.args = Append(@, arg),
                          !.results = Put(@, expr, result),
                          !.lowered[expr] = @ + 1],
               result)

\* CodeGenMapper.map_placeholder
map_placeholder(expr, st) ==
    IF Cached(expr, st) THEN Return(st, st.results[expr])
    ELSE
    LET node == Nodes[expr]
        arg == GlobalArg(node.name, node.shape, node.dtype, FALSE)
        \* ArrayResult(expr.name, expr.dtype, expr.shape)
        result == ArrayResult(node.name, node.dtype, node.shape)
    IN  Return([st EXCEPT !.kernel.args = Append(@, arg),
                          !.results = Put(@, expr, result),
                          !.lowered[expr] = @ + 1],
               result)

\* tuple(f"{expr.name}_dim{d}" for d in range(expr.ndim))
InameBases(node) ==
    [k \in 1..PyLen(node.shape) |-> node.name \o "_dim" \o ToString(k - 1)]

\* output_indices with the dimensions reversed.
output_indices_reversed(inames) ==
    [k \in DOMAIN inames |-> Variable(inames[Len(inames) + 1 - k])]

\* indices = tuple(prim.Variable(iname) for iname in inames)
output_indices(inames) == [k \in DOMAIN inames |-> Variable(inames[k])]

\* kernel_copy with the new instruction put first.
kernel_copy_prepend(kernel, arg, insn, domain) ==
    [args |-> Append(kernel.args, arg),
     instructions |-> <<insn>> \o kernel.instructions,
     domains |-> Append(kernel.domains, domain)]

\* kernel.copy(args=kernel.args + [arg],
\*             instructions=kernel.instructions + [insn],
\*             domains=kernel.domains + [domain])
kernel_copy(kernel, arg, insn, domain) ==
    [args |-> Append(kernel.args, arg),
     instructions |-> Append(kernel.instructions, insn),
     domains |-> Append(kernel.domains, domain)]

\* CodeGenMapper.map_output from the inames on, the inner node lowered.
output_body(expr, st, inner_result) ==
    LET node == Nodes[expr]
        gen == UniqueNames(st.var_name_gen, InameBases(node))
        inames == gen.names
        domain == domain_for_shape(inames, node.shape)
        arg == GlobalArg(node.name, node.shape, node.dtype, TRUE)
        indices == output_indices(inames)
        context == make_expression_context
        copy_expr == to_loopy_expression(inner_result, indices, context)
        st1 == [st EXCEPT !.var_name_gen = gen.existing]
    IN  \* assert not context.reduction_bounds; assert not context.depends_on
        IF DOMAIN context.reduction_bounds # {} \/ context.depends_on # {}
        THEN Raise(st1, "AssertionError", expr)
        ELSE
        LET id == UniqueName(st1.insn_id_gen, node.name \o "_copy")
            insn == make_assignment(Subscript(node.name, indices), copy_expr, id,
                        {inames[k] : k \in DOMAIN inames}, context.depends_on,
                        indices)
            \* ArrayResult(expr.name, expr.dtype, expr.shape)
            result == ArrayResult(node.name, node.dtype, node.shape)
        IN  Return([st1 EXCEPT !.insn_id_gen = @ \cup {id},
                               !.kernel = kernel_copy(@, arg, insn, domain),
                               !.results = Put(@, expr, result),
                               !.lowered[expr] = @ + 1],
                   result)

\* map_output with the output argument added ahead of the shape assertion.
map_output_arg_first(expr, st) ==
    IF Cached(expr, st) THEN Return(st, st.results[expr])
    ELSE
    LET node == Nodes[expr]
        arg == GlobalArg(node.name, node.shape, node.dtype, TRUE)
        st0 == [st EXCEPT !.kernel.args = Append(@, arg)]
    IN  IF node.shape = PyTuple(<<>>) THEN Raise(st0, "AssertionError", expr)
        ELSE LET inner == rec(node.array, st)
             IN  IF inner.state.raised # "" THEN Propagate(inner.state, expr)
                 ELSE output_body(expr, inner.state, inner.result)

\* CodeGenMapper.map_output
map_output(expr, st) ==
    IF Cached(expr, st) THEN Return(st, st.results[expr])
    ELSE
    \* assert expr.shape != ()
    IF Nodes[expr].shape = PyTuple(<<>>) THEN Raise(st, "AssertionError", expr)
    ELSE LET inner == rec(Nodes[expr].array, st)
         IN  IF inner.state.raised # "" THEN Propagate(inner.state, expr)
             ELSE output_body(expr, inner.state, inner.result)

\* LoopyExpressionGenMapper.map_subscript
map_subscript(expr, context, st) ==
    IF ~ChainHas(st.namespace, expr.name)
    THEN [state |-> [st EXCEPT !.raised = "KeyError"], expr |-> NoExpr]
    ELSE LET r == rec(ChainGet(st.namespace, expr.name), st)
         IN  IF r.state.raised # "" THEN [state |-> r.state, expr |-> NoExpr]
             ELSE [state |-> r.state,
                   expr |-> to_loopy_expression(r.result, expr.args, context)]

\* LoopyExpressionGenMapper.map_variable
map_variable(expr, context, st) ==
    IF ~ChainHas(st.namespace, expr.name)
    THEN [state |-> [st EXCEPT !.raised = "KeyError"], expr |-> NoExpr]
    ELSE LET r == rec(ChainGet(st.namespace, expr.name), st)
         IN  IF r.state.raised # "" THEN [state |-> r.state, expr |-> NoExpr]
             ELSE [state |-> r.state,
                   expr |-> to_loopy_expression(r.result, <<>>, context)]

\* IdentityMapper on the children of any other expression, left to right:
\* [state, exprs], done holding the children rewritten so far.
exprgen_children(children, done, context, st) ==
    IF children = <<>> THEN [state |-> st, exprs |-> done]
    ELSE LET r == exprgen_rec(Head(children), context, st)
         IN  IF r.state.raised # "" THEN [state |-> r.state, exprs |-> done]
             ELSE exprgen_children(Tail(children), Append(done, r.expr),
                                   context, r.state)

\* LoopyExpressionGenMapper.__call__ / rec
exprgen_rec(expr, context, st) ==
    IF expr.op = "Subscript" THEN map_subscript(expr, context, st)
    ELSE IF expr.op = "Variable" THEN map_variable(expr, context, st)
    ELSE LET r == exprgen_children(expr.args, <<>>, context, st)
         IN  IF r.state.raised # "" THEN [state |-> r.state, expr |-> NoExpr]
             ELSE [state |-> r.state, expr |-> [expr EXCEPT !.args = r.exprs]]

\* CodeGenMapper.map_index_lambda
map_index_lambda(expr, st) ==
    IF Cached(expr, st) THEN Return(st, st.results[expr])
    ELSE
    LET node == Nodes[expr]
        chained_state == chain_namespaces_enter(st, node.bindings)
        expr_context == make_expression_context
        r == exprgen_rec(node.expr, expr_context, chained_state)
        after == chain_namespaces_exit(r.state)
    IN  IF after.raised # "" THEN Propagate(after, expr)
        ELSE LET result == LoopyExpressionResult(r.expr, node.shape, node.dtype)
             IN  Return([after EXCEPT !.results = Put(@, expr, result),
                                      !.lowered[expr] = @ + 1],
                        result)

\* Mapper.rec / __call__: dispatch on the node's type; a type with no
\* method is an error.
rec(expr, st) ==
    LET st1 == [st EXCEPT !.visits[expr] = @ + 1]
        kind == Nodes[expr].kind
    IN  IF kind = "Placeholder" THEN map_placeholder(expr, st1)
        ELSE IF kind = "Output" THEN map_output(expr, st1)
        ELSE IF kind = "IndexLambda" THEN map_index_lambda(expr, st1)
        ELSE Raise(st1, "ValueError", expr)

------------------------------------------------------------------------------
(* generate_loopy *)

Init ==
    /\ ns \in Namespaces
    /\ pc = "loop"
    /\ i = 1
    /\ state = InitState(ns)
    /\ bound_program = <<>>

\* One turn of `for name, val in namespace.items(): _ = mapper(val, state)`;
\* an exception leaves generate_loopy.
generate_loopy_lower ==
    /\ pc = "loop"
    /\ i <= Len(ns)
    /\ LET r == rec(ns[i], state)
       IN  /\ state' = r.state
           /\ pc' = IF r.state.raised # "" THEN "raised" ELSE "loop"
           /\ i' = IF r.state.raised # "" THEN i ELSE i + 1
    /\ UNCHANGED <<ns, bound_program>>

\* return target.bind_program(program=state.kernel, bound_arguments=dict())
generate_loopy_bind ==
    /\ pc = "loop"
    /\ i > Len(ns)
    /\ bound_program' = << state.kernel >>
    /\ pc' = "done"
    /\ UNCHANGED <<ns, i, state>>

Next == generate_loopy_lower \/ generate_loopy_bind

Spec == Init /\ [][Next]_vars

------------------------------------------------------------------------------
(* Properties *)

Range(q) == {q[k] : k \in DOMAIN q}
Distinct(q) == \A x, y \in DOMAIN q : x # y => q[x] # q[y]
KindOf(n) == Nodes[n].kind
LoweredOf(kind) == {n \in DOMAIN state.results : KindOf(n) = kind}
ArgsNamed(name) == {k \in DOMAIN state.kernel.args : state.kernel.args[k].name = name}
InsnsFor(name) ==
    {k \in DOMAIN state.kernel.instructions :
        state.kernel.instructions[k].assignee.name = name}
\* The domains a lowering added to the kernel (all but make_kernel's "{:}").
AddedDomains == 2..Len(state.kernel.domains)
ArgNames == [k \in DOMAIN state.kernel.args |-> state.kernel.args[k].name]
InsnIds == [k \in DOMAIN state.kernel.instructions |-> state.kernel.instructions[k].id]
AllInames == UNION {Range(state.kernel.domains[k].inames) : k \in AddedDomains}
VariableNames(indices) == [k \in DOMAIN indices |-> indices[k].name]

\* C1 (state part): no node's lowering runs past the cache lookup more than
\* once however often the mapper visits it, a visited node that is cached was
\* lowered exactly once, and the kernel holds no more than one buffer per
\* cached Placeholder or Output and one domain and one instruction per
\* cached Output, so repeated visits added nothing.
MemoInv ==
    /\ \A n \in NodeIds :
        /\ state.lowered[n] <= 1
        /\ state.lowered[n] <= state.visits[n]
        /\ n \in DOMAIN state.results <=> state.lowered[n] = 1
    /\ Len(state.kernel.args) =
            Cardinality(LoweredOf("Placeholder")) + Cardinality(LoweredOf("Output"))
    /\ Len(state.kernel.instructions) = Cardinality(LoweredOf("Output"))
    /\ Cardinality(AddedDomains) = Cardinality(LoweredOf("Output"))

\* C1 (step part): a cached Generated Result is never replaced.
CacheStable ==
    \A n \in DOMAIN state.results :
        n \in DOMAIN state'.results /\ state'.results[n] = state.results[n]

\* C1: Memoization - in one pass every node is lowered at most once, also
\* when reached through several paths; later visits get the cached result
\* and add no buffer, domain or instruction.
C1_Memoization == [](MemoInv) /\ [][CacheStable]_vars

\* A pass completed in which Placeholder a was reached three times: from the
\* top-level loop, as the array of Output out and from the body of the
\* IndexLambda under Output s.
C1_Witness ==
    /\ pc = "done"
    /\ {13, 14} \subseteq DOMAIN state.results
    /\ state.visits[1] >= 3 /\ state.lowered[1] = 1

\* C2: Name uniqueness - in a produced program no two buffer arguments share
\* a name, no two instructions share an id, and no loop-variable name equals
\* another loop-variable name or a buffer argument's name.
C2_NameUniqueness ==
    pc = "done" =>
        /\ Distinct(ArgNames)
        /\ Distinct(InsnIds)
        /\ \A k, l \in AddedDomains :
              \A x \in DOMAIN state.kernel.domains[k].inames :
              \A y \in DOMAIN state.kernel.domains[l].inames :
                 (k # l \/ x # y) =>
                    state.kernel.domains[k].inames[x] # state.kernel.domains[l].inames[y]
        /\ AllInames \cap Range(ArgNames) = {}

------------------------------------------------------------------------------
(* The rendering of a node at an index tuple, read off the graph: a buffer  *)
(* node is subscripted, an IndexLambda is its body with each subscripted    *)
(* binding rendered at that subscript's indices, the lambda's own index     *)
(* names in them replaced by the indices the lambda is accessed at.         *)

RECURSIVE AtIndices(_, _), BodyNames(_), Closed(_), Rendered(_, _), RenderedBody(_, _, _)

\* e with every index name _d replaced by indices[d], for d in range(len(indices)).
AtIndices(e, indices) ==
    IF e.op = "Variable"
    THEN IF \E d \in 0..(Len(indices) - 1) : e.name = IndexName(d)
         THEN indices[1 + CHOOSE d \in 0..(Len(indices) - 1) : e.name = IndexName(d)]
         ELSE e
    ELSE [e EXCEPT !.args = [k \in DOMAIN e.args |-> AtIndices(e.args[k], indices)]]

\* The names a body refers to (the indices of a subscript are not references).
BodyNames(e) ==
    IF e.op \in {"Subscript", "Variable"} THEN {e.name}
    ELSE UNION {BodyNames(e.args[k]) : k \in DOMAIN e.args}

RECURSIVE OnlySubscripts(_)
OnlySubscripts(e) ==
    /\ e.op # "Variable"
    /\ e.op # "Subscript" => \A k \in DOMAIN e.args : OnlySubscripts(e.args[k])

\* Every reference under n is a subscript of one of the lambda's own bindings.
Closed(n) ==
    KindOf(n) = "IndexLambda" =>
        /\ OnlySubscripts(Nodes[n].expr)
        /\ \A name \in BodyNames(Nodes[n].expr) :
              /\ name \in DOMAIN Nodes[n].bindings
              /\ Closed(Nodes[n].bindings[name])

Rendered(n, indices) ==
    IF KindOf(n) = "IndexLambda"
    THEN RenderedBody(Nodes[n].expr, n, indices)
    ELSE IF indices = <<>> THEN Variable(Nodes[n].name)
         ELSE Subscript(Nodes[n].name, indices)

RenderedBody(e, n, indices) ==
    IF e.op = "Subscript"
    THEN Rendered(Nodes[n].bindings[e.name],
                  [k \in DOMAIN e.args |-> AtIndices(e.args[k], indices)])
    ELSE [e EXCEPT !.args = [k \in DOMAIN e.args |-> RenderedBody(e.args[k], n, indices)]]

\* C4: Rendering - the instruction of an Output assigns to out[i0..ik], i the
\* Output's loop variables, its inner node rendered at (i0..ik): x[i0..ik]
\* for a Placeholder x, and for an IndexLambda over its own bindings the body
\* with every subscripted binding rendered in turn and _0.._k replaced
\* simultaneously, in dimension order, by the indices.
C4_Rendering ==
    \A o \in LoweredOf("Output") :
        Closed(Nodes[o].array) =>
            \A j \in InsnsFor(Nodes[o].name) :
                LET insn == state.kernel.instructions[j]
                    loopvars == insn.assignee.args
                IN  /\ insn.assignee = Subscript(Nodes[o].name, loopvars)
                    /\ \A k \in DOMAIN loopvars :
                          loopvars[k].op = "Variable" /\ loopvars[k].name \in AllInames
                    /\ insn.expression = Rendered(Nodes[o].array, loopvars)

\* Lowered: Output out over Placeholder a, Output s over a[_0] + b[_0] and
\* Output t over the transposing lambda u[_1, _0] of m[_0, _1].
C4_Witness ==
    /\ pc = "done"
    /\ {13, 14, 17} \subseteq DOMAIN state.results
    /\ \E j \in InsnsFor("t") :
          state.kernel.instructions[j].expression =
              Subscript("m", <<Variable("t_dim1"), Variable("t_dim0")>>)

\* C5: Fail fast - when the lowering of an Output is left by an exception,
\* nothing of that Output is in the kernel (no buffer argument, no domain,
\* no instruction), no result is cached for it, the kernel holds only what
\* the completed lowerings added, and no program reaches bind_program.
C5_FailFast ==
    /\ state.raised # "" => pc = "raised"
    /\ pc # "done" => bound_program = <<>>
    /\ pc = "raised" =>
        /\ state.raised # ""
        /\ \A o \in state.aborted :
              KindOf(o) = "Output" =>
                /\ o \notin DOMAIN state.results
                /\ ArgsNamed(Nodes[o].name) = {}
                /\ InsnsFor(Nodes[o].name) = {}
                /\ AllInames \cap Range(InameBases(Nodes[o])) = {}
        /\ Len(state.kernel.args) =
              Cardinality(LoweredOf("Placeholder")) + Cardinality(LoweredOf("Output"))
        /\ Len(state.kernel.instructions) = Cardinality(LoweredOf("Output"))
        /\ Cardinality(AddedDomains) = Cardinality(LoweredOf("Output"))

\* The zero-dimensional Output z failed after another Output was lowered.
C5_Witness ==
    /\ pc = "raised"
    /\ 18 \in state.aborted
    /\ state.raised = "AssertionError"
    /\ LoweredOf("Output") # {}

\* The top-level Outputs of the Namespace, in insertion order.
TopOutputs == SelectSeq(ns, LAMBDA n : KindOf(n) = "Output")

RECURSIVE Under(_)
\* The nodes lowering n can reach through arrays and bindings.
Under(n) ==
    {n} \cup (IF KindOf(n) = "Output" THEN Under(Nodes[n].array) ELSE {})
        \cup UNION {Under(Nodes[n].bindings[name]) : name \in DOMAIN Nodes[n].bindings}

\* No top-level Output reaches another Output, by node or by name.
Independent ==
    \A k \in DOMAIN TopOutputs :
        \A n \in Under(Nodes[TopOutputs[k]].array) :
            /\ KindOf(n) # "Output"
            /\ KindOf(n) = "IndexLambda" =>
                  \A name \in BodyNames(Nodes[n].expr) :
                      \A o \in Range(TopOutputs) : Nodes[o].name # name

IsOutputArg(arg) == arg.is_output_only

\* C6: Program content and order - after a successful pass the program that
\* is bound holds exactly one input argument per lowered Placeholder, one
\* output-only argument, one added domain and one instruction per lowered
\* Output and nothing else; when no top-level Output reaches another, the
\* instructions and the output arguments are in Namespace insertion order.
C6_ContentOrder ==
    pc = "done" =>
        /\ bound_program = << state.kernel >>
        /\ \A n \in LoweredOf("Placeholder") :
              /\ Cardinality(ArgsNamed(Nodes[n].name)) = 1
              /\ \A k \in ArgsNamed(Nodes[n].name) :
                    state.kernel.args[k] =
                        GlobalArg(Nodes[n].name, Nodes[n].shape, Nodes[n].dtype, FALSE)
              /\ InsnsFor(Nodes[n].name) = {}
        /\ \A n \in LoweredOf("Output") :
              /\ Cardinality(ArgsNamed(Nodes[n].name)) = 1
              /\ \A k \in ArgsNamed(Nodes[n].name) :
                    state.kernel.args[k] =
                        GlobalArg(Nodes[n].name, Nodes[n].shape, Nodes[n].dtype, TRUE)
              /\ Cardinality(InsnsFor(Nodes[n].name)) = 1
        /\ Len(state.kernel.args) =
              Cardinality(LoweredOf("Placeholder")) + Cardinality(LoweredOf("Output"))
        /\ Len(state.kernel.instructions) = Cardinality(LoweredOf("Output"))
        /\ Cardinality(AddedDomains) = Cardinality(LoweredOf("Output"))
        /\ Range(ns) \subseteq DOMAIN state.results
        /\ Independent =>
              /\ [k \in DOMAIN state.kernel.instructions |->
                    state.kernel.instructions[k].assignee.name]
                 = [k \in DOMAIN TopOutputs |-> Nodes[TopOutputs[k]].name]
              /\ [k \in DOMAIN SelectSeq(state.kernel.args, IsOutputArg) |->
                    SelectSeq(state.kernel.args, IsOutputArg)[k].name]
                 = [k \in DOMAIN TopOutputs |-> Nodes[TopOutputs[k]].name]

\* A pass over three independent top-level Outputs, one over an IndexLambda.
C6_Witness ==
    /\ pc = "done"
    /\ Len(TopOutputs) = 3
    /\ Independent
    /\ LoweredOf("IndexLambda") # {}
    /\ LoweredOf("Placeholder") # {}

------------------------------------------------------------------------------

RECURSIVE generate_loopy_loop(_, _, _)
\* `for name, val in namespace.items(): _ = mapper(val, state)` over the
\* items q from the k-th on: the CodeGenState at the end of the loop (or at
\* the exception).
generate_loopy_loop(q, k, st) ==
    IF k > Len(q) \/ st.raised # "" THEN st
    ELSE generate_loopy_loop(q, k + 1, rec(q[k], st).state)

Reverse(q) == [k \in DOMAIN q |-> q[Len(q) + 1 - k]]

InsnCore(insn) == [id |-> insn.id, assignee |-> insn.assignee, expression |-> insn.expression]

\* C7: Order independence - a pass that lowers the top-level nodes of the
\* same Namespace in another order (here the reverse) and completes too
\* ends with the same set of buffer arguments, of domains and of
\* instructions and the same cached Generated Result for every node.
C7_OrderIndependence ==
    pc = "done" =>
        LET other == generate_loopy_loop(Reverse(ns), 1, InitState(Reverse(ns)))
        IN  other.raised = "" =>
            /\ Range(other.kernel.args) = Range(state.kernel.args)
            /\ Range(other.kernel.domains) = Range(state.kernel.domains)
            /\ {InsnCore(other.kernel.instructions[k]) :
                    k \in DOMAIN other.kernel.instructions}
               = {InsnCore(state.kernel.instructions[k]) :
                    k \in DOMAIN state.kernel.instructions}
            /\ other.results = state.results

\* C8: Scope release - between top-level lowerings, after normal and after
\* exceptional exits of map_index_lambda alike, the namespace chain is the
\* global Namespace only.
C8_ScopeRelease == state.namespace = << NamespaceMap(ns) >>

RECURSIVE BuffersRead(_)
\* The names an emitted expression reads, aggregates and indices alike.
BuffersRead(e) ==
    (IF e.op \in {"Subscript", "Variable"} THEN {e.name} ELSE {})
        \cup UNION {BuffersRead(e.args[k]) : k \in DOMAIN e.args}

\* C9: No dropped dependency - an instruction whose right-hand side reads a
\* buffer that another instruction of the program writes has that
\* instruction's id in its dependency set.
C9_NoDroppedDependency ==
    \A j, k \in DOMAIN state.kernel.instructions :
        LET reader == state.kernel.instructions[j]
            writer == state.kernel.instructions[k]
        IN  (j # k /\ writer.assignee.name \in BuffersRead(reader.expression))
                => writer.id \in reader.depends_on

\* C10: the ArrayResult cached for a Placeholder or Output has the node's
\* name, the node's shape as shape and the node's dtype as dtype, so its
\* ndim is the node's and its shape that of the node's buffer argument.
C10_ArrayResultAttributes ==
    \A n \in DOMAIN state.results :
        LET r == state.results[n]
        IN  r.kind = "ArrayResult" =>
                /\ r.name = Nodes[n].name
                /\ r.shape.py = "tuple"
                /\ r.shape = Nodes[n].shape
                /\ r.dtype.py = "dtype"
                /\ r.dtype = Nodes[n].dtype
                /\ ndim(r) = Len(Nodes[n].shape.val)
                /\ \A k \in ArgsNamed(r.name) : state.kernel.args[k].shape = r.shape

====
